---- MODULE Spec2Model ----
(***************************************************************************)
(* The application API of the raft-kv-memstore example                     *)
(* (examples/raft-kv-memstore/src/network/api.rs): the handlers `write`,   *)
(* `read` and `consistent_read` of one node (`app`), running concurrently. *)
(*                                                                         *)
(* The handlers are modelled from api.rs, one action per await point.  The *)
(* raft engine behind `app.raft` and the store behind `app.store` are not  *)
(* part of api.rs; they are modelled at their interface: the cluster's log *)
(* of committed entries and its leadership, and for this node a committed  *)
(* index, an applied index, a state machine behind a reader/writer lock,   *)
(* and a running flag.  The other nodes appear only as "peer": a peer can  *)
(* be the leader, commit entries and acknowledge writes to its clients.    *)
(*                                                                         *)
(* Option<u64> log indexes are integers: None is -1, Some(i) is i, which   *)
(* keeps Rust's order None < Some(0) < Some(1) < ...                       *)
(***************************************************************************)
EXTENDS Integers, Sequences, FiniteSets, TLC

\* ---------------------------------------------------------------- bounds
\* The number of entries the cluster commits.
MaxLog == 2

Keys == {"k"}
Values == {"v1", "v2"}
\* The read requests: request 1, and request 2 issued after it.
Reads == {1, 2}

None == -1
Blank == "<blank>"
Absent == "<absent>"

VARIABLES
    leader,         \* who can currently reach a quorum: "self", "peer" or "none"
    blank_pending,  \* the leader has not yet committed the blank entry of its term
    stopped,        \* the raft core of this node has shut down
    log,            \* the cluster's committed entries, entry of index i at log[i+1]
    acked,          \* the highest index whose write was answered Ok to a client
    committed,      \* RaftState.committed of this node
    applied,        \* last_applied of this node, as RaftMetrics reports it
    data,           \* state_machine.data of this node: key -> value or Absent
    writer,         \* the apply path holds state_machine.write()
    rd,             \* the requests in the read and consistent_read handlers
    wr              \* the request in the write handler

vars == <<leader, blank_pending, stopped, log, acked, committed, applied, data, writer, rd, wr>>
engine == <<leader, blank_pending, stopped, log, committed, applied, data, writer>>

\* ------------------------------------------------------------ results
Pending == [kind |-> "pending", val |-> ""]
Ok(v) == [kind |-> "Ok", val |-> v]
Err(e) == [kind |-> "Err", val |-> e]

\* RaftError::Fatal(Fatal::Stopped)
FatalStopped == "Fatal(Stopped)"
\* The errors of CheckIsLeaderError.
ForwardToLeader == "ForwardToLeader"
QuorumNotEnough == "QuorumNotEnough"

\* Option<String>::unwrap_or_default(): None becomes the empty string.
unwrap_or_default(v) == IF v = Absent THEN "" ELSE v

\* state_machine.data.get(&key).cloned()
get(key) == data[key]

LastIndex == Len(log) - 1

Max(a, b) == IF a >= b THEN a ELSE b

IdleRead ==
    [pc |-> "idle", kind |-> "none", key |-> "", read_index |-> None,
     checked |-> None, rx |-> "none", captured |-> None, wait |-> "none",
     timer |-> "unset", acked |-> None, seen |-> None, steps |-> <<>>, res |-> Pending]

IdleWrite == [pc |-> "idle", key |-> "", val |-> "", idx |-> None, res |-> Pending]

Init ==
    /\ leader = "none"
    /\ blank_pending = FALSE
    /\ stopped = FALSE
    /\ log = <<>>
    /\ acked = None
    /\ committed = None
    /\ applied = None
    /\ data = [k \in Keys |-> Absent]
    /\ writer = FALSE
    /\ rd = [r \in Reads |-> IdleRead]
    /\ wr = IdleWrite

\* ------------------------------------------------------------ raft engine
\* A node wins an election.  It holds every committed entry in its log, but
\* its committed index stays what it was until an entry of its own term commits.
BecomeLeader(n) ==
    /\ leader = "none"
    /\ n = "self" => ~stopped
    /\ leader' = n
    /\ blank_pending' = TRUE
    /\ UNCHANGED <<stopped, log, acked, committed, applied, data, writer, rd, wr>>

\* The leader is deposed or cut off from the quorum.
LoseLeadership ==
    /\ leader # "none"
    /\ leader' = "none"
    /\ blank_pending' = FALSE
    /\ UNCHANGED <<stopped, log, acked, committed, applied, data, writer, rd, wr>>

\* The leader commits the blank entry it appended on election.
CommitBlank ==
    /\ leader # "none"
    /\ blank_pending
    /\ Len(log) < MaxLog
    /\ log' = Append(log, [key |-> Blank, val |-> ""])
    /\ committed' = IF leader = "self" THEN Len(log) ELSE committed
    /\ blank_pending' = FALSE
    /\ UNCHANGED <<leader, stopped, acked, applied, data, writer, rd, wr>>

\* A client of the peer writes while the peer leads: the entry is committed
\* and applied there, and the peer answers its client.
PeerWrite(k, v) ==
    /\ leader = "peer"
    /\ ~blank_pending
    /\ Len(log) < MaxLog
    /\ log' = Append(log, [key |-> k, val |-> v])
    /\ acked' = Len(log)
    /\ UNCHANGED <<leader, blank_pending, stopped, committed, applied, data, writer, rd, wr>>

\* This node, not leading, learns of a commit from the leader.
Replicate ==
    /\ ~stopped
    /\ leader # "self"
    /\ committed < LastIndex
    /\ committed' = committed + 1
    /\ UNCHANGED <<leader, blank_pending, stopped, log, acked, applied, data, writer, rd, wr>>

\* The read guards (state_machine.read()) currently held.
Readers == {r \in Reads : rd[r].pc = "locked"}

\* The apply path takes state_machine.write() for the next committed entry.
ApplyBegin ==
    /\ ~stopped
    /\ ~writer
    /\ Readers = {}
    /\ applied < committed
    /\ writer' = TRUE
    /\ UNCHANGED <<leader, blank_pending, stopped, log, acked, committed, applied, data, rd, wr>>

\* The entry's effect on the mapping.
apply_entry(m, e) == IF e.key = Blank THEN m ELSE [m EXCEPT ![e.key] = e.val]

\* The apply path mutates the mapping, releases the lock and reports the
\* new applied index.
ApplyEnd ==
    /\ writer
    /\ data' = apply_entry(data, log[applied + 2])
    /\ applied' = applied + 1
    /\ writer' = FALSE
    /\ UNCHANGED <<leader, blank_pending, stopped, log, acked, committed, rd, wr>>

\* The raft core of this node shuts down.
Stop ==
    /\ ~stopped
    /\ stopped' = TRUE
    /\ leader' = IF leader = "self" THEN "none" ELSE leader
    /\ blank_pending' = IF leader = "self" THEN FALSE ELSE blank_pending
    /\ UNCHANGED <<log, acked, committed, applied, data, writer, rd, wr>>

\* ------------------------------------------------------------ write handler
\* A client posts /write; the handler calls app.raft.client_write(req.0).
write(k, v) ==
    /\ wr.pc \in {"idle", "done"}
    /\ wr' = [IdleWrite EXCEPT !.pc = "client_write", !.key = k, !.val = v]
    /\ UNCHANGED <<engine, acked, rd>>

\* client_write on the leader: the entry is appended and committed.
CommitWrite ==
    /\ wr.pc = "client_write"
    /\ wr.idx = None
    /\ leader = "self"
    /\ ~blank_pending
    /\ Len(log) < MaxLog
    /\ log' = Append(log, [key |-> wr.key, val |-> wr.val])
    /\ committed' = Len(log)
    /\ wr' = [wr EXCEPT !.idx = Len(log)]
    /\ UNCHANGED <<leader, blank_pending, stopped, acked, applied, data, writer, rd>>

\* What client_write answers at this moment, if it answers.
client_write ==
    IF stopped THEN {Err(FatalStopped)}
    ELSE IF wr.idx # None
         THEN IF applied >= wr.idx THEN {Ok(wr.val)} ELSE {}
         ELSE IF leader # "self" THEN {Err(ForwardToLeader)} ELSE {}

\* write_response answering a failed write as if it had succeeded.
write_response_masked(response) ==
    IF response.kind = "Err" THEN Ok("") ELSE response

\* Ok(Json(response)): the handler's response is client_write's answer.
write_response(response) == response

\* client_write returns and the handler responds.
write_return ==
    /\ wr.pc = "client_write"
    /\ \E response \in client_write :
         /\ wr' = [IdleWrite EXCEPT !.pc = "done", !.res = write_response(response)]
         /\ acked' = IF wr'.res.kind = "Ok" THEN Max(acked, wr.idx) ELSE acked
    /\ UNCHANGED <<engine, rd>>

\* ------------------------------------------------------------ read handlers
CanIssue(r) ==
    /\ rd[r].pc = "idle"
    /\ \A x \in Reads : x < r => rd[x].pc # "idle"

\* read_start waiting for the committed index to be applied before it reads.
read_start_barrier(q, k) ==
    [q EXCEPT !.pc = "wait", !.kind = "read", !.key = k, !.read_index = committed,
              !.timer = "running"]

\* The read handler goes straight to state_machine.read().await.
read_start(q, k) == [q EXCEPT !.pc = "lock", !.kind = "read", !.key = k]

\* A client posts /read.
read(r, k) ==
    /\ CanIssue(r)
    /\ rd' = [rd EXCEPT ![r] = read_start(rd[r], k)]
    /\ UNCHANGED <<engine, acked, wr>>

\* A client posts /consistent_read: the handler awaits app.raft.is_leader().
consistent_read(r, k) ==
    /\ CanIssue(r)
    /\ rd' = [rd EXCEPT ![r] = [@ EXCEPT !.pc = "is_leader", !.kind = "consistent_read",
                                        !.key = k, !.acked = acked]]
    /\ UNCHANGED <<engine, acked, wr>>

\* What app.raft.is_leader() answers at this moment.
is_leader ==
    IF stopped THEN {Err(FatalStopped)}
    ELSE IF leader = "self" THEN {Ok("")}
    ELSE {Err(ForwardToLeader), Err(QuorumNotEnough)}

\* A request that has been answered: its timers are gone.
Answered(q) ==
    IF q.pc = "done" THEN [q EXCEPT !.timer = "unset", !.checked = None] ELSE q

\* after_is_leader with the Err arm falling back to a local read.
after_is_leader_fallback(q, ret) ==
    IF ret.kind = "Ok"
    THEN [q EXCEPT !.pc = "rx", !.steps = Append(@, "is_leader")]
    ELSE [q EXCEPT !.pc = "lock", !.steps = Append(@, "is_leader")]

\* match ret: Ok(_) goes on to external_request(fn_read_index) and awaits rx;
\* Err(e) => Ok(Json(Err(e))).
after_is_leader(q, ret) ==
    IF ret.kind = "Ok"
    THEN [q EXCEPT !.pc = "rx", !.steps = Append(@, "is_leader")]
    ELSE [q EXCEPT !.pc = "done", !.steps = Append(@, "is_leader"), !.res = ret]

IsLeaderReturns(r) ==
    /\ rd[r].pc = "is_leader"
    /\ \E ret \in is_leader :
         rd' = [rd EXCEPT ![r] =
                  Answered([after_is_leader(rd[r], ret) EXCEPT !.checked = committed])]
    /\ UNCHANGED <<engine, acked, wr>>

\* rx_await with fn_read_index sending the applied index for the committed one.
rx_await_applied ==
    IF stopped THEN [kind |-> "Err", idx |-> None]
    ELSE [kind |-> "Ok", idx |-> applied]

\* What rx.await yields: the raft core runs fn_read_index on its state, or it
\* has stopped and the sender is dropped unanswered.
rx_await ==
    IF stopped THEN [kind |-> "Err", idx |-> None]
    ELSE [kind |-> "Ok", idx |-> committed]

\* after_rx discarding the index it received: the wait is for None.
after_rx_no_index(q, res) ==
    IF res.kind = "Ok"
    THEN [q EXCEPT !.pc = "wait", !.read_index = None, !.timer = "running",
                   !.steps = Append(@, "read_index")]
    ELSE [q EXCEPT !.pc = "done", !.steps = Append(@, "read_index"),
                   !.res = Err(FatalStopped)]

\* after_rx with the Err arm defaulting the index and carrying on.
after_rx_default(q, res) ==
    [q EXCEPT !.pc = "wait", !.read_index = res.idx, !.timer = "running",
              !.steps = Append(@, "read_index")]

\* after_rx waiting for the index before the one it received.
after_rx_off_by_one(q, res) ==
    IF res.kind = "Ok"
    THEN [q EXCEPT !.pc = "wait", !.read_index = Max(None, res.idx - 1),
                   !.timer = "running", !.steps = Append(@, "read_index")]
    ELSE [q EXCEPT !.pc = "done", !.steps = Append(@, "read_index"),
                   !.res = Err(FatalStopped)]

\* match res: Ok(x) => x, then the wait with its 3 s timeout begins;
\* Err(recv_err) => return Ok(Json(Err(RaftError::Fatal(Fatal::Stopped)))).
after_rx(q, res) ==
    IF res.kind = "Ok"
    THEN [q EXCEPT !.pc = "wait", !.read_index = res.idx, !.timer = "running",
                   !.steps = Append(@, "read_index")]
    ELSE [q EXCEPT !.pc = "done", !.steps = Append(@, "read_index"),
                   !.res = Err(FatalStopped)]

RxReturns(r) ==
    /\ rd[r].pc = "rx"
    /\ rd' = [rd EXCEPT ![r] =
                Answered([after_rx(rd[r], rx_await)
                            EXCEPT !.checked = None, !.rx = rx_await.kind,
                                   !.captured = rx_await.idx])]
    /\ UNCHANGED <<engine, acked, wr>>

\* Three seconds pass after the request was issued, before its wait begins.
CallDeadline(r) ==
    /\ rd[r].pc \in {"is_leader", "rx"}
    /\ rd[r].timer = "unset"
    /\ rd' = [rd EXCEPT ![r].timer = "late"]
    /\ UNCHANGED <<engine, acked, wr>>

\* The 3 s timeout of the wait, armed when the wait began, fires.
WaitDeadline(r) ==
    /\ rd[r].pc = "wait"
    /\ rd[r].timer = "running"
    /\ rd' = [rd EXCEPT ![r].timer = "expired"]
    /\ UNCHANGED <<engine, acked, wr>>

\* log_at_least looking at its deadline and at the engine before it looks at
\* the applied index.
log_at_least_deadline_first(want, timer) ==
    IF timer = "expired" THEN {"TimedOut"}
    ELSE IF stopped THEN {"ShuttingDown"}
    ELSE IF applied >= want THEN {"Reached"}
    ELSE {}

\* log_at_least waiting for the applied index to pass the index wanted.
log_at_least_strict(want, timer) ==
    IF applied > want THEN {"Reached"}
    ELSE (IF timer = "expired" THEN {"TimedOut"} ELSE {})
         \cup (IF stopped THEN {"ShuttingDown"} ELSE {})

\* What wait(Some(3 s)).log_at_least(read_index, ..) answers at this moment, if
\* it answers.  (Its other condition, last_log_index >= read_index, holds of any
\* index that was the node's committed index.)
log_at_least(want, timer) ==
    IF applied >= want THEN {"Reached"}
    ELSE (IF timer = "expired" THEN {"TimedOut"} ELSE {})
         \cup (IF stopped THEN {"ShuttingDown"} ELSE {})

\* after_wait ignoring the result of the wait.
after_wait_ignored(q, res) ==
    [q EXCEPT !.pc = "lock", !.wait = res, !.steps = Append(@, "wait")]

\* after_wait treating a timeout as success.
after_wait_timeout_ok(q, res) ==
    IF res \in {"Reached", "TimedOut"}
    THEN [q EXCEPT !.pc = "lock", !.wait = res, !.steps = Append(@, "wait")]
    ELSE [q EXCEPT !.pc = "done", !.wait = res, !.steps = Append(@, "wait"),
                   !.res = Err(FatalStopped)]

\* after_wait answering a timeout by fetching the read index and waiting again.
after_wait_retry(q, res) ==
    IF res = "Reached"
    THEN [q EXCEPT !.pc = "lock", !.wait = res, !.steps = Append(@, "wait")]
    ELSE IF res = "TimedOut"
    THEN [q EXCEPT !.pc = "rx", !.wait = res, !.steps = Append(@, "wait")]
    ELSE [q EXCEPT !.pc = "done", !.wait = res, !.steps = Append(@, "wait"),
                   !.res = Err(FatalStopped)]

\* match res: Ok(_) => (), on to state_machine.read();
\* Err(wait_err) => return Ok(Json(Err(RaftError::Fatal(Fatal::Stopped)))).
after_wait(q, res) ==
    IF res = "Reached"
    THEN [q EXCEPT !.pc = "lock", !.wait = res, !.steps = Append(@, "wait")]
    ELSE [q EXCEPT !.pc = "done", !.wait = res, !.steps = Append(@, "wait"),
                   !.res = Err(FatalStopped)]

WaitReturns(r) ==
    /\ rd[r].pc = "wait"
    /\ \E res \in log_at_least(rd[r].read_index, rd[r].timer) :
         rd' = [rd EXCEPT ![r] =
                  Answered([after_wait(rd[r], res) EXCEPT !.timer = "unset"])]
    /\ UNCHANGED <<engine, acked, wr>>

\* state_machine_read granted without regard to the apply path.
state_machine_read_unguarded(q) == TRUE

\* state_machine.read().await is granted when the apply path does not hold
\* the lock.
state_machine_read(q) == ~writer

ReadLock(r) ==
    /\ rd[r].pc = "lock"
    /\ state_machine_read(rd[r])
    /\ rd' = [rd EXCEPT ![r].pc = "locked"]
    /\ UNCHANGED <<engine, acked, wr>>

\* The value of key once the entries up to index j are applied.
RECURSIVE ValueAt(_, _)
ValueAt(j, key) ==
    IF j < 0 THEN Absent
    ELSE IF log[j + 1].key = key THEN log[j + 1].val
    ELSE ValueAt(j - 1, key)

\* read_value answering from the state as of the request's read index, not from
\* the mapping as it is.
read_value_at_read_index(q) == Ok(unwrap_or_default(ValueAt(q.read_index, q.key)))

\* read_value answering an absent key with an error.
read_value_strict(q) ==
    IF get(q.key) = Absent THEN Err("NotFound") ELSE Ok(get(q.key))

\* let value = state_machine.data.get(&key).cloned(); Ok(value.unwrap_or_default())
read_value(q) == Ok(unwrap_or_default(get(q.key)))

\* ReadValue reading through data.entry(key).or_default(): an absent key is
\* inserted with the empty string.
ReadValue_or_insert(r) ==
    /\ rd[r].pc = "locked"
    /\ rd' = [rd EXCEPT ![r] =
                Answered([@ EXCEPT !.pc = "done", !.res = read_value(rd[r]),
                                   !.seen = applied,
                                   !.steps = Append(@, "state_machine")])]
    /\ data' = [data EXCEPT ![rd[r].key] = unwrap_or_default(@)]
    /\ UNCHANGED <<leader, blank_pending, stopped, log, committed, applied, writer, acked, wr>>

\* The handler reads the mapping, responds and drops the read guard.
ReadValue(r) ==
    /\ rd[r].pc = "locked"
    /\ rd' = [rd EXCEPT ![r] =
                Answered([@ EXCEPT !.pc = "done", !.res = read_value(rd[r]),
                                   !.seen = applied,
                                   !.steps = Append(@, "state_machine")])]
    /\ UNCHANGED <<engine, acked, wr>>

\* ------------------------------------------------------------ specification
\* The raft engine and the store: everything that is not a handler.
Engine ==
    \/ \E n \in {"self", "peer"} : BecomeLeader(n)
    \/ LoseLeadership
    \/ CommitBlank
    \/ \E k \in Keys, v \in Values : PeerWrite(k, v)
    \/ Replicate
    \/ ApplyBegin
    \/ ApplyEnd
    \/ Stop

\* The write handler.
WriteHandler ==
    \/ \E k \in Keys, v \in Values : write(k, v)
    \/ CommitWrite
    \/ write_return

\* The read handlers serving request r.
ReadHandler(r) ==
    \/ \E k \in Keys : read(r, k)
    \/ \E k \in Keys : consistent_read(r, k)
    \/ IsLeaderReturns(r)
    \/ RxReturns(r)
    \/ CallDeadline(r)
    \/ WaitDeadline(r)
    \/ WaitReturns(r)
    \/ ReadLock(r)
    \/ ReadValue(r)

\* One read request, concurrent with a write request and the engine.
Next == Engine \/ WriteHandler \/ ReadHandler(1)

Spec == Init /\ [][Next]_vars

\* Two concurrent read requests and the engine.
NextPair == Engine \/ \E r \in Reads : ReadHandler(r)

SpecPair == Init /\ [][NextPair]_vars

\* A consistent_read request, and a read request issued after it.
NextMixed ==
    \/ Engine
    \/ \E k \in Keys : consistent_read(1, k)
    \/ IsLeaderReturns(1)
    \/ RxReturns(1)
    \/ CallDeadline(1)
    \/ \E r \in Reads : WaitDeadline(r)
    \/ \E r \in Reads : WaitReturns(r)
    \/ \E k \in Keys : read(2, k)
    \/ \E r \in Reads : ReadLock(r)
    \/ \E r \in Reads : ReadValue(r)

SpecMixed == Init /\ [][NextMixed]_vars

\* The runtime runs a handler whose lock is granted, and an apply in progress
\* finishes.  Nothing is assumed of the engine's progress, of the timers, or of
\* the waits.
ReadFairness ==
    /\ \A r \in Reads : WF_vars(ReadLock(r)) /\ WF_vars(ReadValue(r))
    /\ WF_vars(ApplyEnd)

LiveSpec == SpecMixed /\ ReadFairness

\* Two concurrent consistent_read requests and the engine.  The log grows by
\* the entries that new leaders commit: what an entry holds does not bear on
\* the wait for its index.
NextWaiters ==
    \/ \E n \in {"self", "peer"} : BecomeLeader(n)
    \/ LoseLeadership
    \/ CommitBlank
    \/ Replicate
    \/ ApplyBegin
    \/ ApplyEnd
    \/ Stop
    \/ \E r \in Reads :
         \/ \E k \in Keys : consistent_read(r, k)
         \/ IsLeaderReturns(r)
         \/ RxReturns(r)
         \/ WaitDeadline(r)
         \/ WaitReturns(r)
         \/ ReadLock(r)
         \/ ReadValue(r)

SpecWaiters == Init /\ [][NextWaiters]_vars

\* A wait that can answer does answer: the metrics channel notifies every
\* subscriber of a change, and the runtime runs a task that was woken.
WaitFairness == \A r \in Reads : WF_vars(WaitReturns(r))

LiveWaiters == SpecWaiters /\ WaitFairness

\* ------------------------------------------------------------ properties
ConsistentReads == {r \in Reads : rd[r].kind = "consistent_read"}
LocalReads == {r \in Reads : rd[r].kind = "read"}
Served(r) == rd[r].pc = "done" /\ rd[r].res.kind = "Ok"
Failed(r) == rd[r].pc = "done" /\ rd[r].res.kind = "Err"
TouchedStateMachine(r) ==
    \/ rd[r].pc \in {"lock", "locked"}
    \/ rd[r].seen # None
    \/ \E i \in 1..Len(rd[r].steps) : rd[r].steps[i] = "state_machine"

\* An answered request stays answered.
Final(r) == rd[r].pc = "done" => rd'[r] = rd[r]

\* C1: a consistent_read that returns a value returns the value of its key in a
\* state of the replicated state machine that holds every write acknowledged to
\* a client before the read was issued.
C1_Linearizable ==
    \A r \in ConsistentReads :
        Served(r) =>
            \E j \in rd[r].acked..LastIndex :
                rd[r].res.val = unwrap_or_default(ValueAt(j, rd[r].key))

C3_ReadOnlyAfterReached ==
    \A r \in ConsistentReads :
        /\ TouchedStateMachine(r) => rd[r].wait = "Reached" /\ applied >= rd[r].read_index
        /\ rd[r].wait \in {"TimedOut", "ShuttingDown"} => Failed(r)
        /\ Served(r) => rd[r].wait = "Reached" /\ rd[r].seen >= rd[r].read_index

\* A read holds the mapping after its wait for a read index returned Reached.
C3_Witness ==
    \E r \in ConsistentReads :
        /\ rd[r].pc = "locked"
        /\ rd[r].wait = "Reached"
        /\ rd[r].read_index >= 1
        /\ applied >= rd[r].read_index

\* C4 (P3): when is_leader answers with an error, the consistent_read ends at
\* once with that error: no read index is captured, no wait and no access to
\* the state machine happens, and nothing follows.
C4_NotLeaderShortCircuits ==
    [][\A r \in Reads :
         /\ Final(r)
         /\ (rd[r].pc = "is_leader" /\ rd'[r].pc # "is_leader" /\ Ok("") \notin is_leader) =>
                /\ rd'[r].pc = "done"
                /\ rd'[r].res \in is_leader
                /\ rd'[r].res.kind = "Err"
                /\ rd'[r].steps = <<"is_leader">>
                /\ rd'[r].read_index = None
                /\ rd'[r].wait = "none"
                /\ rd'[r].seen = None]_vars

\* A consistent_read was refused by a node that is not the leader.
C4_Witness ==
    \E r \in ConsistentReads :
        /\ Failed(r)
        /\ rd[r].res.val = ForwardToLeader
        /\ rd[r].steps = <<"is_leader">>

\* C5 (P2): a consistent_read whose wait timed out is answered with an error,
\* never a value, and never reads the state machine.
C5_TimeoutNeverReturnsData ==
    \A r \in ConsistentReads :
        rd[r].wait = "TimedOut" => Failed(r) /\ ~TouchedStateMachine(r)

\* A consistent_read timed out waiting for its read index.
C5_Witness ==
    \E r \in ConsistentReads :
        rd[r].wait = "TimedOut" /\ rd[r].pc = "done" /\ applied < rd[r].read_index

\* C6: a wait that timed out is reported as Timeout, and Fatal(Stopped) is
\* reported only when the engine has stopped.
C6_TimeoutDistinctFromStopped ==
    \A r \in ConsistentReads :
        /\ (rd[r].pc = "done" /\ rd[r].wait = "TimedOut") => rd[r].res = Err("Timeout")
        /\ (rd[r].pc = "done" /\ rd[r].res = Err(FatalStopped)) => stopped

\* C7: when the engine stops under a consistent_read, so that rx is dropped
\* unanswered or the wait ends ShuttingDown, the read is answered
\* Fatal(Stopped), with no value and no access to the state machine.
C7_StoppedEngineFails ==
    \A r \in ConsistentReads :
        (rd[r].rx = "Err" \/ rd[r].wait = "ShuttingDown") =>
            /\ rd[r].pc = "done"
            /\ rd[r].res = Err(FatalStopped)
            /\ ~TouchedStateMachine(r)
            /\ stopped

\* The engine stopped after the leadership check succeeded, before rx was
\* answered, and the read failed.
C7_Witness ==
    \E r \in ConsistentReads :
        /\ rd[r].pc = "done"
        /\ rd[r].rx = "Err"
        /\ rd[r].res = Err(FatalStopped)

\* C8: one deadline governs the whole call: once three seconds have passed
\* since the request was issued, whichever step the call is in, the call is
\* abandoned: the next thing it does is end, with an error and no value, and
\* it takes no further step of the protocol.
C8_SingleDeadline ==
    [][\A r \in Reads :
         (rd[r].timer = "late" /\ rd'[r] # rd[r]) =>
             rd'[r].pc = "done" /\ rd'[r].res.kind = "Err"]_vars

\* C9: read always answers Ok with the value mapped to the key, or with the
\* empty string when the key is absent; it checks no leadership and waits for
\* nothing.
C9_LocalReadAlwaysSucceeds ==
    [][\A r \in Reads :
         /\ rd[r].kind = "read" =>
                /\ rd[r].pc \in {"lock", "locked", "done"}
                /\ rd[r].pc = "done" => rd[r].res.kind = "Ok"
                /\ rd[r].read_index = None /\ rd[r].wait = "none"
         /\ (rd[r].kind = "read" /\ rd[r].pc = "locked" /\ rd'[r].pc # "locked") =>
                /\ rd'[r].pc = "done"
                /\ rd'[r].res = Ok(IF data[rd[r].key] \in Values THEN data[rd[r].key] ELSE "")
                /\ rd'[r].steps = <<"state_machine">>]_vars

\* A read of a key never written was answered with the empty string by a node
\* that is not the leader.
C9_Witness ==
    \E r \in LocalReads :
        /\ rd[r].pc = "done"
        /\ rd[r].res = Ok("")
        /\ leader # "self"
        /\ rd[r].seen = None

\* C10 (P5): a read that was issued is answered, whatever the applied index
\* does and however long consistent reads stay suspended in their wait.
C10_LocalReadNeverBlocks ==
    \A r \in Reads : (rd[r].kind = "read") ~> (rd[r].pc = "done")

\* A read was answered while a consistent_read issued before it is suspended
\* waiting for an index that is not applied.
C10_Witness ==
    /\ rd[1].kind = "consistent_read" /\ rd[1].pc = "wait"
    /\ applied < rd[1].read_index
    /\ rd[2].kind = "read" /\ rd[2].pc = "done"
    /\ rd[2].seen < rd[1].read_index

\* C11: no step of read or of consistent_read, on any path, changes the
\* state-machine mapping, the replicated log, the committed index or the
\* applied index; the handlers generate no log entry.
C11_ReadsHaveNoSideEffects ==
    [][rd' # rd =>
         /\ data' = data
         /\ log' = log
         /\ committed' = committed
         /\ applied' = applied]_vars

\* A read of a key that is not in the mapping was answered, and the key is
\* still not in the mapping.
C11_Witness ==
    \E r \in Reads :
        /\ rd[r].pc = "done"
        /\ rd[r].res = Ok("")
        /\ data[rd[r].key] = Absent

\* C12: of two consistent reads that were served, having captured read
\* indexes R1 <= R2 (each an index, not None), the one that captured R2 read
\* the state machine at an applied index at least as high as the other did.
C12_MonotonicAcrossReads ==
    \A r1, r2 \in ConsistentReads :
        (/\ Served(r1) /\ Served(r2)
         /\ rd[r1].captured # None
         /\ rd[r1].captured <= rd[r2].captured) =>
            rd[r2].seen >= rd[r1].seen

\* C12, amended: of two consistent reads that were served, the one that
\* captured the higher (or the same) read index read the state machine at an
\* applied index at least as high as the read index of the other.
C12_AtLeastTheOtherBarrier ==
    \A r1, r2 \in ConsistentReads :
        (Served(r1) /\ Served(r2) /\ rd[r1].captured <= rd[r2].captured) =>
            rd[r2].seen >= rd[r1].captured

\* Two consistent reads were served; the one whose read index is not the
\* lower read at that index, and the other, delayed, read a later state.
C12_Witness ==
    \E r1, r2 \in ConsistentReads :
        /\ Served(r1) /\ Served(r2)
        /\ rd[r1].captured >= 0
        /\ rd[r1].captured <= rd[r2].captured
        /\ rd[r2].seen = rd[r2].captured
        /\ rd[r1].seen > rd[r2].seen

\* The states of a deadline.
Timers == {"unset", "late", "running", "expired"}

\* C13 (P4): once a wait for the read index R has returned Reached, a wait for
\* the same R answers at once, and answers Reached, whenever it is made and
\* whatever its deadline: the applied index never decreases.
C13_WaitIdempotent ==
    \A r \in ConsistentReads :
        rd[r].wait = "Reached" =>
            \A t \in Timers : log_at_least(rd[r].read_index, t) = {"Reached"}

\* A wait returned Reached for a read index; a second request waits for the
\* same index, later, its deadline already passed and the engine stopped.
C13_Witness ==
    \E r1, r2 \in ConsistentReads :
        /\ rd[r1].wait = "Reached"
        /\ rd[r1].read_index >= 0
        /\ rd[r2].pc = "wait"
        /\ rd[r2].read_index = rd[r1].read_index
        /\ rd[r2].timer = "expired"
        /\ stopped
        /\ applied > rd[r1].read_index

\* C14: write hands its request to client_write once, unchanged, and answers
\* what client_write answers, a success or a failure alike: a new request goes
\* to client_write as posted, the request is not altered while client_write
\* runs, at most one entry, the request's, enters the log for it, and the
\* handler ends with client_write's answer.
C14_WritePassThrough ==
    [][/\ (wr.pc \in {"idle", "done"} /\ wr' # wr) =>
              wr'.pc = "client_write" /\ wr'.idx = None /\ wr'.res = Pending
       /\ (wr.pc = "client_write" /\ wr'.pc = "client_write") =>
              wr'.key = wr.key /\ wr'.val = wr.val /\ wr'.res = Pending
       /\ (wr' # wr /\ log' # log) =>
              /\ wr.pc = "client_write" /\ wr.idx = None
              /\ log' = Append(log, [key |-> wr.key, val |-> wr.val])
       /\ (wr.pc = "client_write" /\ wr'.pc = "done") =>
              wr'.res \in client_write]_vars

\* A write posted to a node that is not the leader was answered with the
\* error client_write gave, and nothing entered the log for it.
C14_Witness ==
    /\ wr.pc = "done"
    /\ wr.res = Err(ForwardToLeader)
    /\ leader = "peer"
    /\ log = <<>>

\* C15: the read index a consistent_read goes on to wait for is at least the
\* committed index of the moment its is_leader returned Ok; it is the
\* committed index of the later moment at which the engine ran fn_read_index.
C15_ReadIndexNotBelowCheck ==
    [][\A r \in Reads :
         (rd[r].pc = "rx" /\ rd'[r].pc = "wait") =>
             /\ rd'[r].read_index >= rd[r].checked
             /\ rd'[r].read_index = committed]_vars

\* The leadership check of a read succeeded at a committed index, and the
\* committed index has risen before the engine answers fn_read_index.
C15_Witness ==
    \E r \in ConsistentReads :
        /\ rd[r].pc = "rx"
        /\ rd[r].checked >= 0
        /\ committed > rd[r].checked
        /\ rx_await = [kind |-> "Ok", idx |-> committed]

\* C16: the read index a consistent_read receives from the engine after its
\* is_leader returned Ok is an index, never None: a node confirmed as leader
\* has a committed index.
C16_ReadIndexPresent ==
    \A r \in ConsistentReads :
        rd[r].rx = "Ok" => rd[r].captured # None

\* A request suspended in its wait.
Suspended(r) == rd[r].kind = "consistent_read" /\ rd[r].pc = "wait"

\* C17: of any number of consistent reads suspended in their waits, on the
\* same or on different read indexes, each one whose read index the applied
\* index has reached resumes with Reached, none stays suspended for ever; and
\* a wait returns Reached only when applied >= its read index.
C17_WaitersWake ==
    /\ \A r \in Reads :
          (Suspended(r) /\ applied >= rd[r].read_index) ~> (rd[r].wait = "Reached")
    /\ [][\A r \in Reads :
            (Suspended(r) /\ rd'[r].wait = "Reached") => applied >= rd[r].read_index]_vars

\* Two consistent reads are suspended on different read indexes, and the
\* applied index has reached the lower one only.
C17_Witness ==
    /\ Suspended(1) /\ Suspended(2)
    /\ rd[1].read_index # rd[2].read_index
    /\ rd[1].read_index >= 0 /\ rd[2].read_index >= 0
    /\ \E r \in Reads : applied >= rd[r].read_index
    /\ \E r \in Reads : applied < rd[r].read_index

\* The steps of consistent_read, in the order of the code.
StepOrder == <<"is_leader", "read_index", "wait", "state_machine">>

\* C18: a consistent_read takes its steps in one order, each at most once:
\* is_leader, then the read index, then the wait, then the state machine.  What
\* it has done is always a prefix of that order; it answers only after
\* is_leader, with a value only after all four steps, and with an error right
\* after the step that failed, none of the steps before it repeated.
C18_FixedOrderNoRetry ==
    \A r \in ConsistentReads :
        /\ \E n \in 0..4 : rd[r].steps = SubSeq(StepOrder, 1, n)
        /\ rd[r].pc = "is_leader" => rd[r].steps = <<>>
        /\ rd[r].pc = "rx" => Len(rd[r].steps) = 1
        /\ rd[r].pc = "wait" => Len(rd[r].steps) = 2
        /\ rd[r].pc \in {"lock", "locked"} => Len(rd[r].steps) = 3
        /\ Served(r) => Len(rd[r].steps) = 4
        /\ Failed(r) =>
              \/ Len(rd[r].steps) = 1 /\ rd[r].rx = "none" /\ rd[r].wait = "none"
              \/ Len(rd[r].steps) = 2 /\ rd[r].rx = "Err" /\ rd[r].wait = "none"
              \/ Len(rd[r].steps) = 3 /\ rd[r].rx = "Ok"
                    /\ rd[r].wait \in {"TimedOut", "ShuttingDown"}

\* A consistent_read whose wait timed out ended there: one leadership check,
\* one read index, one wait, and the index is applied by now.
C18_Witness ==
    \E r \in ConsistentReads :
        /\ Failed(r)
        /\ rd[r].wait = "TimedOut"
        /\ rd[r].steps = <<"is_leader", "read_index", "wait">>
        /\ applied >= rd[r].read_index
        /\ leader = "self"

\* C19: read and consistent_read hold the mapping in shared mode only: no
\* step of theirs takes or releases the exclusive mode or changes the mapping,
\* no reader holds the mapping while the apply path holds it, and the value a
\* reader answers is the value of its key after a whole number of applied
\* entries.  Readers do not exclude one another.
C19_ReaderWriterDiscipline ==
    [][/\ ~(writer' /\ Readers' # {})
       /\ \A r \in Reads :
            /\ rd'[r] # rd[r] => writer' = writer /\ data' = data
            /\ (rd[r].pc = "lock" /\ rd'[r].pc = "locked") => ~writer
            /\ (rd[r].pc = "locked" /\ rd'[r].pc = "done") =>
                   /\ ~writer
                   /\ rd'[r].res = Ok(unwrap_or_default(ValueAt(applied, rd[r].key)))]_vars

\* A read and a consistent_read hold the mapping at the same time, and the
\* apply path, with an entry to apply, is kept out.
C19_Witness ==
    /\ Readers = Reads
    /\ \E r \in Reads : rd[r].kind = "read"
    /\ \E r \in Reads : rd[r].kind = "consistent_read"
    /\ applied < committed
    /\ ~writer

\* C20: a read or consistent_read that reads the state machine when another
\* request on the node has already been answered with a value (so, any request
\* issued after that answer) reads at an applied index at least as high, and
\* answers the value of its key in that state: never a state older than one
\* already returned.
C20_SequentialMonotonic ==
    [][\A r, x \in Reads :
         (rd[r].pc = "locked" /\ rd'[r].pc = "done" /\ Served(x)) =>
             /\ rd'[r].seen >= rd[x].seen
             /\ rd'[r].res = Ok(unwrap_or_default(ValueAt(rd'[r].seen, rd[r].key)))]_vars

\* A read was answered from a state that holds a write; a consistent_read
\* whose read index is below that state was answered from a state no older.
C20_Witness ==
    \E r, x \in Reads :
        /\ rd[x].kind = "read" /\ Served(x)
        /\ rd[x].seen >= 0
        /\ rd[x].res.val \in Values
        /\ rd[r].kind = "consistent_read" /\ Served(r)
        /\ rd[r].seen >= rd[x].seen
        /\ rd[r].captured < rd[x].seen
        /\ rd[r].res = rd[x].res

====
